---- MODULE Spec2Model ----
(***************************************************************************)
(* Process lifecycle and duplex transport of the simplified MCP deployer   *)
(* (src/src/core/simple_mcp_deployer.py): the newline frame decoder, the   *)
(* reader thread, SimpleMCPCommunicator.send_request / send_notification,  *)
(* the three-step handshake and the registry of active servers.            *)
(*                                                                         *)
(* The specifications share the variables:                                 *)
(*   SpecFrame     - bytes fed to the decoder in arbitrary chunks;         *)
(*   SpecTransport - caller threads, reader thread and child process of    *)
(*                   one registered session;                               *)
(*   SpecFair      - the same under fair scheduling of the threads, with   *)
(*                   writes that block on a full pipe;                     *)
(*   SpecClient    - AsyncMCPClient (src/src/core/async_mcp_client.py)     *)
(*                   over the same transport;                              *)
(*   Spec          - deploy_package / cleanup_server / cleanup_all of one  *)
(*                   SimpleMCPDeployer, with the handshake run over the    *)
(*                   same transport;                                       *)
(*   SpecCleanup   - cleanup_server / cleanup_all called by two threads;   *)
(*   SpecDetect    - detect_simple_platform probing the two runtimes.      *)
(***************************************************************************)
EXTENDS Integers, Sequences, FiniteSets, TLC

\* ------------------------------------------------------------------ bounds
MaxStreamLen == 4   \* longest byte stream fed to the decoder
MaxCalls == 2       \* send_request / send_notification calls per session
MaxUnsolicited == 1 \* lines the child may emit that answer no request
MaxDeploys == 2     \* deploy_package calls on one deployer

\* ------------------------------------------------------------------- bytes
\* One element of a byte stream.  ch is the byte; a reply body is carried as
\* one element whose ch is the shape of its JSON text and whose id is the
\* request the child wrote it for (0: none).
Byte(c) == [ch |-> c, id |-> 0]
NL == Byte("\n")
CR == Byte("\r")
SP == Byte(" ")
BAD == Byte("xFF")    \* a byte that is never valid UTF-8
LEAD == Byte("xC3")   \* lead byte of a two-byte UTF-8 sequence
CONT == Byte("xA9")   \* continuation byte of a two-byte UTF-8 sequence
Alphabet == {Byte("A"), Byte("B"), Byte("C"), NL, CR, SP, BAD, LEAD, CONT}

Whitespace == {"\n", "\r", " "}

\* bytes.decode('utf-8', errors='ignore'): invalid bytes are dropped, a lead
\* byte survives only with its continuation byte and vice versa.
ValidAt(b, i) ==
    CASE b[i] = BAD -> FALSE
      [] b[i] = LEAD -> i < Len(b) /\ b[i + 1] = CONT
      [] b[i] = CONT -> i > 1 /\ b[i - 1] = LEAD
      [] OTHER -> TRUE

RECURSIVE DecodeFrom(_, _)
DecodeFrom(b, i) ==
    IF i > Len(b) THEN <<>>
    ELSE IF ValidAt(b, i) THEN <<b[i]>> \o DecodeFrom(b, i + 1)
    ELSE DecodeFrom(b, i + 1)

Decode(b) == DecodeFrom(b, 1)

\* str.find('\n'): 1-based position of the first newline, 0 when absent
RECURSIVE FindFrom(_, _)
FindFrom(s, i) ==
    IF i > Len(s) THEN 0
    ELSE IF s[i] = NL THEN i
    ELSE FindFrom(s, i + 1)

FindNewline(s) == FindFrom(s, 1)

\* str.rstrip('\r')
RECURSIVE RStripCR(_)
RStripCR(s) ==
    IF s # <<>> /\ s[Len(s)] = CR THEN RStripCR(SubSeq(s, 1, Len(s) - 1))
    ELSE s

\* not message_line.strip()
IsBlank(s) == \A i \in 1..Len(s) : s[i].ch \in Whitespace

RECURSIVE _try_extract_message(_)

\* the buffer is cleared instead of keeping what follows the newline
ExtractDropsRemainder(buf) ==
    LET buffer_str == Decode(buf)
        newline_pos == FindNewline(buffer_str)
    IN  IF newline_pos = 0
        THEN [found |-> FALSE, msg |-> <<>>, buf |-> buf]
        ELSE LET message_line == RStripCR(SubSeq(buffer_str, 1, newline_pos - 1))
             IN  IF ~IsBlank(message_line)
                 THEN [found |-> TRUE, msg |-> message_line, buf |-> <<>>]
                 ELSE [found |-> FALSE, msg |-> <<>>, buf |-> <<>>]

\* an empty line ends the extraction instead of retrying on the remainder
ExtractStopsAtEmptyLine(buf) ==
    LET buffer_str == Decode(buf)
        newline_pos == FindNewline(buffer_str)
    IN  IF newline_pos = 0
        THEN [found |-> FALSE, msg |-> <<>>, buf |-> buf]
        ELSE LET message_line == RStripCR(SubSeq(buffer_str, 1, newline_pos - 1))
                 remaining == SubSeq(buffer_str, newline_pos + 1, Len(buffer_str))
             IN  IF ~IsBlank(message_line)
                 THEN [found |-> TRUE, msg |-> message_line, buf |-> remaining]
                 ELSE [found |-> FALSE, msg |-> <<>>, buf |-> remaining]

\* SimpleMCPCommunicator._try_extract_message: found = FALSE is None; buf is
\* self._buffer after the call.
_try_extract_message(buf) ==
    LET buffer_str == Decode(buf)
        newline_pos == FindNewline(buffer_str)
    IN  IF newline_pos = 0
        THEN [found |-> FALSE, msg |-> <<>>, buf |-> buf]
        ELSE LET message_line == RStripCR(SubSeq(buffer_str, 1, newline_pos - 1))
                 remaining == SubSeq(buffer_str, newline_pos + 1, Len(buffer_str))
             IN  IF ~IsBlank(message_line)
                 THEN [found |-> TRUE, msg |-> message_line, buf |-> remaining]
                 ELSE IF remaining # <<>>
                      THEN _try_extract_message(remaining)
                      ELSE [found |-> FALSE, msg |-> <<>>, buf |-> remaining]

\* one message at most is extracted after an append
ExtractOnce(buf, q) ==
    LET r == _try_extract_message(buf)
    IN  IF r.found THEN [buf |-> r.buf, q |-> Append(q, r.msg)]
        ELSE [buf |-> r.buf, q |-> q]

\* reader, lines 54-58: extract until None, putting each message on the queue
RECURSIVE ExtractAll(_, _)
ExtractAll(buf, q) ==
    LET r == _try_extract_message(buf)
    IN  IF r.found THEN ExtractAll(r.buf, Append(q, r.msg))
        ELSE [buf |-> r.buf, q |-> q]

\* reader, lines 52-58: self._buffer.extend(chunk), then the extraction loop
ReaderAppend(buf, q, chunk) == ExtractAll(buf \o chunk, q)

\* -------------------------------------------------------- payloads, JSON
\* reply texts: what json.loads makes of the line
ToolsReply == "{result:{tools:[{name:echo}]}}"
EmptyResultReply == "{result:{}}"
ErrorReply == "{error:{code:-32601}}"
NullResultReply == "{result:null}"
NullToolsReply == "{result:{tools:null}}"
TextReply == "not json"
JsonTexts == {ToolsReply, EmptyResultReply, ErrorReply, NullResultReply,
              NullToolsReply}
AllShapes == JsonTexts \cup {TextReply}

\* json.loads(response_text) succeeds
JsonDecodes(msg) == Len(msg) = 1 /\ msg[1].ch \in JsonTexts

\* a payload handed to send_request / send_notification: seq numbers the
\* calls on one communicator, id is the JSON-RPC id (0: a notification)
Payload(n, i, m, p) == [seq |-> n, id |-> i, method |-> m, params |-> p]
NoPayload == Payload(0, 0, "", "")

\* the dict send_request returns; raised: the call raised instead
Result(ok, err, dec, text) ==
    [success |-> ok, error |-> err, decoded |-> dec, raw |-> text, raised |-> FALSE]
NoResult == Result(FALSE, "", FALSE, <<>>)
Raised == [success |-> FALSE, error |-> "BrokenPipeError", decoded |-> FALSE,
           raw |-> <<>>, raised |-> TRUE]

Clients == {"t1", "t2"}
Main == "main"
Threads == Clients \cup {Main}

\* ---------------------------------------------------------------- variables
VARIABLES
    stream,          \* every byte the child wrote to stdout (decoder runs only)
    procs,           \* the subprocess.Popen objects still referred to, by pid
    cur,             \* pid of the process the communicator is bound to (0: none)
    written,         \* everything written to the child's stdin, in order
    childPos,        \* how much of written the child has read
    stdoutPipe,      \* bytes written by the child and not yet read
    childShapes,     \* the reply texts the child may produce, by request
    unsolicited,     \* lines the child has emitted that answer no request
    _buffer,         \* SimpleMCPCommunicator._buffer
    response_queue,  \* SimpleMCPCommunicator.response_queue
    lock,            \* SimpleMCPCommunicator.lock: its holder, or "none"
    readerPc,        \* position of the reader thread
    pc,              \* position of each calling thread
    req,             \* the payload, or the locals, of each thread's call
    result,          \* what each thread's last call returned
    ncalls,          \* transport calls made on the communicator so far
    timedOutSeqs,    \* the requests whose send_request timed out
    active_servers,  \* SimpleMCPDeployer.active_servers
    platform_info,   \* SimpleMCPDeployer.platform_info
    dpc,             \* position of the thread that drives the deployer
    loc,             \* local variables of the deploy_package call in progress
    ret,             \* what the deployer's last operation returned
    before,          \* active_servers when the last deploy_package was called
    ndeploys,        \* deploy_package calls made so far
    issued,          \* payloads the handshake handed to the communicator
    hs               \* what the handshake of the last deploy_package did

childVars == <<written, childPos, stdoutPipe, childShapes, unsolicited>>
commVars == <<_buffer, response_queue, lock, readerPc>>
callVars == <<pc, req, result, ncalls, timedOutSeqs>>
deployVars == <<platform_info, dpc, loc, ret, before, ndeploys, issued, hs>>
deployVarsButRet == <<platform_info, dpc, loc, before, ndeploys, issued, hs>>
vars == <<stream, procs, cur, childVars, commVars, callVars, active_servers, deployVars>>

\* ------------------------------------------------------- decoder in chunks
RECURSIVE SeqsUpTo(_)
SeqsUpTo(n) ==
    IF n = 0 THEN {<<>>}
    ELSE LET shorter == SeqsUpTo(n - 1)
         IN  shorter \cup {Append(s, b) : s \in {x \in shorter : Len(x) = n - 1}, b \in Alphabet}

\* a communicator at rest: nothing sent, nothing received, no caller inside
IdleTransport ==
    /\ written = <<>>
    /\ childPos = 0
    /\ unsolicited = 0
    /\ _buffer = <<>>
    /\ response_queue = <<>>
    /\ lock = "none"
    /\ readerPc = "poll"
    /\ pc = [t \in Threads |-> "idle"]
    /\ req = [t \in Threads |-> NoPayload]
    /\ result = [t \in Threads |-> NoResult]
    /\ ncalls = 0
    /\ timedOutSeqs = {}

\* a spawned process: its state and whether terminate() was called on it
Process(state) == [st |-> state, term |-> FALSE]

\* the deployer between two operations
\* explicit: the caller passed a run_command; spawned: the argv of each
\* subprocess.Popen call; first: what became of the first of them
NoLocals == [package_name |-> "", run_command |-> [given |-> FALSE, parts |-> <<>>],
             explicit |-> FALSE, runtime_type |-> "", cmd |-> <<>>, spawned |-> <<>>,
             first |-> "", process |-> 0]
NoHandshake == [done |-> FALSE, ok |-> FALSE, init |-> <<>>, tools_result |-> NoResult]
Returned(op, value) == [op |-> op, value |-> value]
\* ... and the server_id it was called with
ReturnedFor(op, arg, value) == [op |-> op, value |-> value, arg |-> arg]

IdleDeployer ==
    /\ dpc = "idle"
    /\ loc = NoLocals
    /\ before = <<>>
    /\ issued = <<>>
    /\ hs = NoHandshake

InitFrame ==
    /\ stream \in SeqsUpTo(MaxStreamLen)
    /\ stdoutPipe = stream
    /\ procs = (1 :> Process("running"))
    /\ cur = 1
    /\ childShapes = [initialize |-> {}, other |-> {}]
    /\ active_servers = <<>>
    /\ platform_info = [node_available |-> TRUE, uv_available |-> FALSE]
    /\ ret = Returned("", "")
    /\ ndeploys = 0
    /\ IdleTransport
    /\ IdleDeployer

\* one append of n bytes followed by extraction to exhaustion
FeedChunk(n) ==
    /\ n \in 1..Len(stdoutPipe)
    /\ LET r == ReaderAppend(_buffer, response_queue, SubSeq(stdoutPipe, 1, n))
       IN  /\ _buffer' = r.buf
           /\ response_queue' = r.q
    /\ stdoutPipe' = SubSeq(stdoutPipe, n + 1, Len(stdoutPipe))
    /\ UNCHANGED <<stream, procs, cur, written, childPos, childShapes,
                   unsolicited, lock, readerPc, callVars, active_servers, deployVars>>

NextFrame == \E n \in 1..MaxStreamLen : FeedChunk(n)

SpecFrame == InitFrame /\ [][NextFrame]_vars

\* ---------------------------------------------------------- child process
Running(pid) == pid \in DOMAIN procs /\ procs[pid].st = "running"

\* process.poll() is None
PollIsNone == Running(cur)

\* a frame reaches the pipe as its JSON text followed by its newline
Piece(payload, part) == [p |-> payload, part |-> part]

\* the next whole line on the child's stdin
StdinLine == written[childPos + 1].p

HasFrame ==
    /\ childPos + 2 <= Len(written)
    /\ written[childPos + 1].part = "body"
    /\ written[childPos + 2] = Piece(StdinLine, "nl")

\* the child reads one whole line from its stdin, a notification, which it
\* does not answer
ChildReadFrame ==
    /\ Running(cur)
    /\ HasFrame
    /\ StdinLine.id = 0
    /\ childPos' = childPos + 2
    /\ UNCHANGED <<stream, procs, cur, written, stdoutPipe, childShapes, unsolicited,
                   commVars, callVars, active_servers, deployVars>>

\* the child reads one whole line from its stdin, a request, and answers it
\* with one line
ChildReply ==
    /\ Running(cur)
    /\ HasFrame
    /\ StdinLine.id > 0
    /\ \E shape \in (IF StdinLine.method = "initialize"
                     THEN childShapes.initialize ELSE childShapes.other) :
         stdoutPipe' = stdoutPipe \o <<[ch |-> shape, id |-> StdinLine.seq], NL>>
    /\ childPos' = childPos + 2
    /\ UNCHANGED <<stream, procs, cur, written, childShapes, unsolicited,
                   commVars, callVars, active_servers, deployVars>>

\* the child writes a line nobody asked for (a log line)
ChildUnsolicited ==
    /\ Running(cur)
    /\ unsolicited < MaxUnsolicited
    /\ stdoutPipe' = stdoutPipe \o <<[ch |-> TextReply, id |-> 0], NL>>
    /\ unsolicited' = unsolicited + 1
    /\ UNCHANGED <<stream, procs, cur, written, childPos, childShapes,
                   commVars, callVars, active_servers, deployVars>>

\* the child exits, on its own or because it was asked to
ChildExit ==
    /\ Running(cur)
    /\ procs' = [procs EXCEPT ![cur].st = "exited"]
    /\ UNCHANGED <<stream, cur, childVars, commVars, callVars, active_servers, deployVars>>

\* ----------------------------------------------------------- reader thread
\* start_reader_thread, lines 67-68: the thread runs once a communicator
\* has started it
ReaderStarted == cur # 0

\* reader, line 46: while self.process.poll() is None
ReaderPoll ==
    /\ ReaderStarted
    /\ readerPc = "poll"
    /\ readerPc' = (IF PollIsNone THEN "read" ELSE "exit")
    /\ UNCHANGED <<stream, procs, cur, childVars, _buffer, response_queue, lock,
                   callVars, active_servers, deployVars>>

\* reader, lines 48-60: stdout.read(1) blocks for a byte, or returns nothing
\* at end of file; a byte read is appended and the buffer extracted
ReaderRead ==
    /\ ReaderStarted
    /\ readerPc = "read"
    /\ \/ /\ stdoutPipe # <<>>
          /\ LET r == ReaderAppend(_buffer, response_queue, <<Head(stdoutPipe)>>)
             IN  /\ _buffer' = r.buf
                 /\ response_queue' = r.q
          /\ stdoutPipe' = Tail(stdoutPipe)
       \/ /\ stdoutPipe = <<>>
          /\ ~Running(cur)
          /\ UNCHANGED <<_buffer, response_queue, stdoutPipe>>
    /\ readerPc' = "poll"
    /\ UNCHANGED <<stream, procs, cur, written, childPos, childShapes,
                   unsolicited, lock, callVars, active_servers, deployVars>>

\* ------------------------------------------------------------ send_request
\* leaving the with-block: the result is returned and the lock released
Return(t, r) ==
    /\ result' = [result EXCEPT ![t] = r]
    /\ pc' = [pc EXCEPT ![t] = "done"]
    /\ lock' = "none"

\* the lock is taken without waiting for its holder
AcquireWithoutLock(t, from, to) ==
    /\ pc[t] = from
    /\ lock' = t
    /\ pc' = [pc EXCEPT ![t] = to]
    /\ UNCHANGED <<stream, procs, cur, childVars, _buffer, response_queue, readerPc,
                   req, result, ncalls, timedOutSeqs, active_servers, deployVars>>

\* with self.lock: blocks until the lock is free
Acquire(t, from, to) ==
    /\ pc[t] = from
    /\ lock = "none"
    /\ lock' = t
    /\ pc' = [pc EXCEPT ![t] = to]
    /\ UNCHANGED <<stream, procs, cur, childVars, _buffer, response_queue, readerPc,
                   req, result, ncalls, timedOutSeqs, active_servers, deployVars>>

\* send_request runs without taking the lock
RequestWithoutLock(t) == AcquireWithoutLock(t, "sr_acquire", "sr_poll")

\* send_request, line 140
SendRequestAcquire(t) == Acquire(t, "sr_acquire", "sr_poll")

\* the queue is emptied before the process is checked
DrainBeforePoll(t) ==
    /\ pc[t] = "sr_poll"
    /\ response_queue' = <<>>
    /\ IF PollIsNone
       THEN /\ pc' = [pc EXCEPT ![t] = "sr_write1"]
            /\ UNCHANGED <<result, lock>>
       ELSE Return(t, Result(FALSE, "terminated", FALSE, <<>>))
    /\ UNCHANGED <<stream, procs, cur, childVars, _buffer, readerPc,
                   req, ncalls, timedOutSeqs, active_servers, deployVars>>

\* send_request, lines 142-143
SendRequestPoll(t) ==
    /\ pc[t] = "sr_poll"
    /\ IF PollIsNone
       THEN /\ pc' = [pc EXCEPT ![t] = "sr_drain"]
            /\ UNCHANGED <<result, lock>>
       ELSE Return(t, Result(FALSE, "terminated", FALSE, <<>>))
    /\ UNCHANGED <<stream, procs, cur, childVars, _buffer, response_queue, readerPc,
                   req, ncalls, timedOutSeqs, active_servers, deployVars>>

\* send_request, lines 146-150: one turn of the loop that empties the queue
SendRequestDrain(t) ==
    /\ pc[t] = "sr_drain"
    /\ IF response_queue # <<>>
       THEN /\ response_queue' = Tail(response_queue)
            /\ UNCHANGED pc
       ELSE /\ pc' = [pc EXCEPT ![t] = "sr_write1"]
            /\ UNCHANGED response_queue
    /\ UNCHANGED <<stream, procs, cur, childVars, _buffer, lock, readerPc,
                   req, result, ncalls, timedOutSeqs, active_servers, deployVars>>

\* _write_json_frame, lines 127-131: the text, then the newline; writing to
\* the pipe of a child that has exited raises
WritePiece(t, from, part, to) ==
    /\ pc[t] = from
    /\ Running(cur)
    /\ written' = written \o <<Piece(req[t], part)>>
    /\ pc' = [pc EXCEPT ![t] = to]
    /\ UNCHANGED <<stream, procs, cur, childPos, stdoutPipe, childShapes,
                   unsolicited, commVars, req, result, ncalls, timedOutSeqs,
                   active_servers, deployVars>>

WriteRaises(t, from) ==
    /\ pc[t] = from
    /\ ~Running(cur)

\* send_request, line 154
SendRequestWrite(t) ==
    \/ WritePiece(t, "sr_write1", "body", "sr_write2")
    \/ WritePiece(t, "sr_write2", "nl", "sr_wait")

\* send_request, lines 169-170: the write raised
SendRequestException(t) ==
    /\ WriteRaises(t, "sr_write1") \/ WriteRaises(t, "sr_write2")
    /\ Return(t, Result(FALSE, "exception", FALSE, <<>>))
    /\ UNCHANGED <<stream, procs, cur, childVars, _buffer, response_queue, readerPc,
                   req, ncalls, timedOutSeqs, active_servers, deployVars>>

\* a dequeued line that is not JSON is reported as a failure
NonJsonIsFailure(t) ==
    /\ pc[t] = "sr_wait"
    /\ response_queue # <<>>
    /\ LET response_text == Head(response_queue)
       IN  Return(t, Result(JsonDecodes(response_text), "", JsonDecodes(response_text),
                            response_text))
    /\ response_queue' = Tail(response_queue)
    /\ UNCHANGED <<stream, procs, cur, childVars, _buffer, readerPc,
                   req, ncalls, timedOutSeqs, active_servers, deployVars>>

\* send_request, lines 158-164: a line was dequeued within the timeout
SendRequestGet(t) ==
    /\ pc[t] = "sr_wait"
    /\ response_queue # <<>>
    /\ LET response_text == Head(response_queue)
       IN  Return(t, Result(TRUE, "", JsonDecodes(response_text), response_text))
    /\ response_queue' = Tail(response_queue)
    /\ UNCHANGED <<stream, procs, cur, childVars, _buffer, readerPc,
                   req, ncalls, timedOutSeqs, active_servers, deployVars>>

\* the process is terminated when a request times out
TimeoutKillsProcess(t) ==
    /\ pc[t] = "sr_wait"
    /\ response_queue = <<>>
    /\ Return(t, Result(FALSE, "timeout", FALSE, <<>>))
    /\ timedOutSeqs' = timedOutSeqs \cup {req[t].seq}
    /\ procs' = [procs EXCEPT ![cur].st = "exited", ![cur].term = TRUE]
    /\ UNCHANGED <<stream, cur, childVars, _buffer, response_queue, readerPc,
                   req, ncalls, active_servers, deployVars>>

\* send_request, lines 165-167: the queue stayed empty for the whole timeout
SendRequestTimeout(t) ==
    /\ pc[t] = "sr_wait"
    /\ response_queue = <<>>
    /\ Return(t, Result(FALSE, "timeout", FALSE, <<>>))
    /\ timedOutSeqs' = timedOutSeqs \cup {req[t].seq}
    /\ UNCHANGED <<stream, procs, cur, childVars, _buffer, response_queue, readerPc,
                   req, ncalls, active_servers, deployVars>>

\* ------------------------------------------------------- send_notification
\* send_notification writes without taking the lock
NotificationWithoutLock(t) == AcquireWithoutLock(t, "sn_acquire", "sn_write1")

\* send_notification, line 135
SendNotificationAcquire(t) == Acquire(t, "sn_acquire", "sn_write1")

\* send_notification, line 136
SendNotificationWrite(t) ==
    \/ WritePiece(t, "sn_write1", "body", "sn_write2")
    \/ /\ WritePiece(t, "sn_write2", "nl", "sn_return")

\* send_notification returns None, or the exception of the write leaves it;
\* either way the lock is released
SendNotificationReturn(t) ==
    /\ \/ /\ pc[t] = "sn_return"
          /\ Return(t, Result(TRUE, "", FALSE, <<>>))
       \/ /\ WriteRaises(t, "sn_write1") \/ WriteRaises(t, "sn_write2")
          /\ Return(t, Raised)
    /\ UNCHANGED <<stream, procs, cur, childVars, _buffer, response_queue, readerPc,
                   req, ncalls, timedOutSeqs, active_servers, deployVars>>

\* every step of the communicator's threads, and of a child that writes
\* lines only in reply to requests
HandshakeTransportStep ==
    \/ ChildReadFrame
    \/ ChildReply
    \/ ChildExit
    \/ ReaderPoll
    \/ ReaderRead
    \/ \E t \in Threads :
         \/ SendRequestAcquire(t)
         \/ SendRequestPoll(t)
         \/ SendRequestDrain(t)
         \/ SendRequestWrite(t)
         \/ SendRequestException(t)
         \/ SendRequestGet(t)
         \/ SendRequestTimeout(t)
         \/ SendNotificationAcquire(t)
         \/ SendNotificationWrite(t)
         \/ SendNotificationReturn(t)

\* ------------------------------------------- callers of a registered session
\* a registered session: SimpleMCPServerInfo
Session(pid, tools) == [process |-> pid, available_tools |-> tools]

\* the state a successful deploy_package leaves behind
InitTransport ==
    /\ stream = <<>>
    /\ stdoutPipe = <<>>
    /\ procs = (1 :> Process("running"))
    /\ cur = 1
    /\ childShapes = [initialize |-> {}, other |-> {ToolsReply}]
    /\ active_servers = (1 :> Session(1, "[{name:echo}]"))
    /\ platform_info = [node_available |-> TRUE, uv_available |-> FALSE]
    /\ ret = Returned("deploy_package", "server_info")
    /\ ndeploys = 1
    /\ IdleTransport
    /\ IdleDeployer

\* a thread calls send_request on the session's communicator
CallSendRequest(t) ==
    /\ t \in Clients
    /\ pc[t] \in {"idle", "done"}
    /\ ncalls < MaxCalls
    /\ ncalls' = ncalls + 1
    /\ req' = [req EXCEPT ![t] = Payload(ncalls + 1, ncalls + 1, "tools/call", "name")]
    /\ pc' = [pc EXCEPT ![t] = "sr_acquire"]
    /\ result' = [result EXCEPT ![t] = NoResult]
    /\ UNCHANGED <<stream, procs, cur, childVars, commVars, timedOutSeqs,
                   active_servers, deployVars>>

\* a thread calls send_notification on the session's communicator
CallSendNotification(t) ==
    /\ t \in Clients
    /\ pc[t] \in {"idle", "done"}
    /\ ncalls < MaxCalls
    /\ ncalls' = ncalls + 1
    /\ req' = [req EXCEPT ![t] = Payload(ncalls + 1, 0, "notifications/initialized", "")]
    /\ pc' = [pc EXCEPT ![t] = "sn_acquire"]
    /\ result' = [result EXCEPT ![t] = NoResult]
    /\ UNCHANGED <<stream, procs, cur, childVars, commVars, timedOutSeqs,
                   active_servers, deployVars>>

NextTransport ==
    \/ HandshakeTransportStep
    \/ ChildUnsolicited
    \/ \E t \in Clients : CallSendRequest(t) \/ CallSendNotification(t)

SpecTransport == InitTransport /\ [][NextTransport]_vars

\* --------------------------------------------- callers under fair scheduling
\* _write_json_frame, line 130: process.stdin is an unbuffered pipe (lines
\* 358 and 363), and a write to a pipe blocks while the pipe has no room.
\* How many bytes the frames hold is not modelled, so the pipe may be full
\* whenever the running child has left something unread in it
WriteBlocks(t) ==
    /\ pc[t] = "sr_write1"
    /\ Running(cur)
    /\ childPos < Len(written)
    /\ pc' = [pc EXCEPT ![t] = "sr_blocked"]
    /\ UNCHANGED <<stream, procs, cur, childVars, commVars, req, result, ncalls,
                   timedOutSeqs, active_servers, deployVars>>

\* the blocked write goes on once the child has read what was in the pipe,
\* and raises (lines 169-170) once the child has exited
WriteUnblocks(t) ==
    /\ pc[t] = "sr_blocked"
    /\ IF Running(cur)
       THEN /\ childPos = Len(written)
            /\ pc' = [pc EXCEPT ![t] = "sr_write1"]
            /\ UNCHANGED <<result, lock>>
       ELSE Return(t, Result(FALSE, "exception", FALSE, <<>>))
    /\ UNCHANGED <<stream, procs, cur, childVars, _buffer, response_queue, readerPc,
                   req, ncalls, timedOutSeqs, active_servers, deployVars>>

\* the steps a thread takes inside send_request and send_notification
ThreadStep(t) ==
    \/ SendRequestAcquire(t)
    \/ SendRequestPoll(t)
    \/ SendRequestDrain(t)
    \/ SendRequestWrite(t)
    \/ SendRequestException(t)
    \/ SendRequestGet(t)
    \/ SendRequestTimeout(t)
    \/ SendNotificationAcquire(t)
    \/ SendNotificationWrite(t)
    \/ SendNotificationReturn(t)
    \/ WriteUnblocks(t)

NextFair ==
    \/ NextTransport
    \/ \E t \in Clients : WriteBlocks(t) \/ WriteUnblocks(t)

\* every thread that can take a step is scheduled in the end; nothing is
\* assumed of the child, nor of the callers making further calls
SpecFair ==
    /\ InitTransport
    /\ [][NextFair]_vars
    /\ \A t \in Clients : WF_vars(ThreadStep(t))
    /\ WF_vars(ReaderPoll \/ ReaderRead)

\* ------------------------------------------------------------ the deployer
\* run_command: None, or the tokens run_command.split() yields
NoCommand == [given |-> FALSE, parts |-> <<>>]
Command(parts) == [given |-> TRUE, parts |-> parts]
Blank == Command(<<>>)   \* a string of white space only

GhPlain == "https://github.com/o/pkg"
GhUvDir == "https://github.com/o/uv-pkg"
GhUvMcp == "https://github.com/o/pkg-uv-mcp"

\* the arguments deploy_package is called with
PackageNames == {"", "pkg"}
RunCommands == {NoCommand, Command(<<"uvx", "pkg", "[transport]">>),
                Command(<<"pkg", "--stdio">>), Blank}
GithubUrls == {"", GhPlain, GhUvDir, GhUvMcp}

\* detect_simple_platform(github_url), lines 245-257
DetectRuntime(github_url) ==
    IF github_url \in {GhUvDir, GhUvMcp} THEN "uvx" ELSE "npx"

\* deploy_package, lines 426-438: the run command derived from the GitHub URL
EffectiveCommand(package_name, run_command, github_url) ==
    IF github_url # "" /\ ~run_command.given
    THEN IF DetectRuntime(github_url) = "uvx" /\ github_url = GhUvDir
         THEN IF package_name # ""
              THEN Command(<<"uvx", package_name>>)
              ELSE Command(<<"uvx", "--from", "git+url", "mcp-server">>)
         ELSE IF DetectRuntime(github_url) = "npx"
              THEN IF package_name # ""
                   THEN Command(<<"npx", "-y", package_name>>)
                   ELSE NoCommand
              ELSE run_command
    ELSE run_command

\* _get_runtime_info, lines 281-312: raises is the IndexError of line 296
_get_runtime_info(run_command) ==
    LET cmd_parts == run_command.parts
        named == IF run_command.given /\ cmd_parts # <<>> /\ cmd_parts[1] \in {"uvx", "npx"}
                 THEN cmd_parts[1] ELSE "npx"
        runtime_type == IF named = "uvx" /\ ~platform_info.uv_available
                        THEN "npx" ELSE named
    IN  [raises |-> run_command.given /\ cmd_parts = <<>>,
         runtime_type |-> runtime_type,
         available |-> IF runtime_type = "uvx" THEN TRUE
                       ELSE platform_info.node_available]

\* _build_runtime_command, lines 325-351; the runtime's path is written as
\* the runtime's name
_build_runtime_command(runtime_type, run_command, package_name) ==
    IF run_command.given
    THEN LET cmd_parts == [i \in DOMAIN run_command.parts |->
                             IF run_command.parts[i] = "[transport]" THEN "stdio"
                             ELSE run_command.parts[i]]
         IN  IF cmd_parts[1] \in {"npx", "uvx"}
             THEN <<runtime_type>> \o Tail(cmd_parts)
             ELSE IF runtime_type = "npx"
                  THEN <<"npx", "-y">> \o cmd_parts
                  ELSE <<"uvx">> \o cmd_parts
    ELSE IF runtime_type = "npx"
         THEN <<"npx", "-y", package_name>>
         ELSE <<"uvx", package_name>>

\* _try_start_process, lines 395-398
FallbackCommand(runtime_type, package_name) ==
    IF runtime_type = "npx" THEN <<"npx", "-y", package_name>>
    ELSE <<"uvx", package_name>>

\* _try_start_process, line 389: the fallback is tried only when the local
\* run_command of deploy_package is empty
FallbackAllowed(run_command) == ~run_command.given

\* the transport variables hold the communicator of the deploy_package call
\* in progress; between calls there is none
NoCommunicator ==
    /\ cur' = 0
    /\ written' = <<>>
    /\ childPos' = 0
    /\ stdoutPipe' = <<>>
    /\ unsolicited' = 0
    /\ _buffer' = <<>>
    /\ response_queue' = <<>>
    /\ lock' = "none"
    /\ readerPc' = "poll"
    /\ pc' = [t \in Threads |-> "idle"]
    /\ req' = [t \in Threads |-> NoPayload]
    /\ result' = [t \in Threads |-> NoResult]
    /\ ncalls' = 0
    /\ timedOutSeqs' = {}

\* deploy_package returns: lines 423, 472, 502, 504-511
ReturnWith(value, servers, allProcs, locals) ==
    /\ ret' = Returned("deploy_package", value)
    /\ active_servers' = servers
    /\ procs' = allProcs
    /\ dpc' = "idle"
    /\ loc' = locals
    /\ NoCommunicator
    /\ UNCHANGED <<stream, childShapes, platform_info, before, ndeploys>>

DeployReturn(value, servers, allProcs) == ReturnWith(value, servers, allProcs, NoLocals)

\* deploy_package, lines 470-472: _try_start_process returned None; what it
\* did stays on record until the next call
LaunchFails(allProcs, spawned, first) ==
    ReturnWith("None", active_servers, allProcs,
               [loc EXCEPT !.spawned = spawned, !.first = first])

\* the except block returns without calling terminate
TerminateSkipped(pid) == procs

\* deploy_package, lines 504-511: process.terminate() if a process was bound
Terminated(pid) ==
    IF pid = 0 THEN procs ELSE [procs EXCEPT ![pid].term = TRUE]

\* the Popen objects the registry still refers to; the others are garbage
Referenced ==
    [pid \in {active_servers[i].process : i \in DOMAIN active_servers} |-> procs[pid]]

\* the handle of a newly spawned process
NewPid(allProcs) == CHOOSE pid \in 1..(Cardinality(DOMAIN allProcs) + 1) : pid \notin DOMAIN allProcs

\* subprocess.Popen(argv), found in this state after the grace period
Spawn(allProcs, state) == (NewPid(allProcs) :> Process(state)) @@ allProcs

\* deploy_package, lines 421-468: everything before the process is started
DeployCall(package_name, run_command, github_url) ==
    /\ dpc = "idle"
    /\ ndeploys < MaxDeploys
    /\ ndeploys' = ndeploys + 1
    /\ before' = active_servers
    /\ issued' = <<>>
    /\ hs' = NoHandshake
    /\ procs' = Referenced
    /\ UNCHANGED <<stream, cur, childVars, commVars, callVars, active_servers,
                   platform_info>>
    /\ IF package_name = "" /\ ~run_command.given
       THEN /\ ret' = Returned("deploy_package", "None")
            /\ loc' = NoLocals
            /\ UNCHANGED dpc
       ELSE LET command == EffectiveCommand(package_name, run_command, github_url)
                runtime_info == _get_runtime_info(command)
            IN  IF runtime_info.raises
                THEN /\ ret' = Returned("deploy_package", "raised")
                     /\ loc' = NoLocals
                     /\ UNCHANGED dpc
                ELSE IF ~runtime_info.available
                THEN /\ ret' = Returned("deploy_package", "None")
                     /\ loc' = NoLocals
                     /\ UNCHANGED dpc
                ELSE /\ loc' = [package_name |-> package_name,
                                run_command |-> command,
                                explicit |-> run_command.given,
                                runtime_type |-> runtime_info.runtime_type,
                                cmd |-> _build_runtime_command(runtime_info.runtime_type,
                                                               command, package_name),
                                spawned |-> <<>>,
                                first |-> "",
                                process |-> 0]
                     /\ dpc' = "spawn"
                     /\ ret' = Returned("deploy_package", "running")

\* deploy_package, lines 470-472 with _try_start_process, lines 355-410: the
\* process is spawned and, after the grace period, found running, or exited
\* with an argument error on stderr, or exited with anything else
\* (first = "raises": Popen itself raised); when the fallback starts, the
\* exited first process is no longer referenced
TryStartProcess ==
    /\ dpc = "spawn"
    /\ UNCHANGED <<stream, childVars, commVars, callVars, platform_info, before,
                   ndeploys, issued, hs>>
    /\ \E first \in {"raises", "running", "arg_error", "other_error"} :
         CASE first = "raises" ->
                /\ LaunchFails(procs, <<loc.cmd>>, first)
           [] first = "running" ->
                /\ procs' = Spawn(procs, "running")
                /\ loc' = [loc EXCEPT !.spawned = <<loc.cmd>>, !.first = first,
                                      !.process = NewPid(procs)]
                /\ dpc' = "bind"
                /\ UNCHANGED <<cur, active_servers, ret>>
           [] first = "other_error" ->
                /\ LaunchFails(Spawn(procs, "exited"), <<loc.cmd>>, first)
           [] first = "arg_error" ->
                IF ~FallbackAllowed(loc.run_command)
                THEN LaunchFails(Spawn(procs, "exited"), <<loc.cmd>>, first)
                ELSE LET both == <<loc.cmd, FallbackCommand(loc.runtime_type,
                                                            loc.package_name)>>
                     IN  \E second \in {"raises", "running", "exited"} :
                           IF second = "raises"
                           THEN LaunchFails(Spawn(procs, "exited"), both, first)
                           ELSE /\ procs' = Spawn(procs, second)
                                /\ loc' = [loc EXCEPT !.spawned = both, !.first = first,
                                                      !.process = NewPid(procs)]
                                /\ dpc' = "bind"
                                /\ UNCHANGED <<cur, active_servers, ret>>

\* deploy_package, lines 474-479: the communicator is bound to the process
\* and its reader thread started; the arguments of the call are not used
\* again except in messages
CreateCommunicator ==
    /\ dpc = "bind"
    /\ cur' = loc.process
    /\ loc' = [NoLocals EXCEPT !.process = loc.process]
    /\ dpc' = "hs_start"
    /\ UNCHANGED <<stream, procs, childVars, commVars, callVars, active_servers,
                   platform_info, ret, before, ndeploys, issued, hs>>

\* ------------------------------------------------------------ the handshake
InitRequest(n) == Payload(n, 1, "initialize", "protocolVersion,capabilities,clientInfo")

\* the retry repeats the full request
RetryRepeatsFullRequest(n) == InitRequest(n)

\* _initialize_mcp_protocol, lines 538-545
SimpleInitRequest(n) == Payload(n, 1, "initialize", "protocolVersion")

\* _initialize_mcp_protocol, lines 553-556
InitNotification(n) == Payload(n, 0, "notifications/initialized", "")

\* _initialize_mcp_protocol, lines 561-565
ToolsRequest(n) == Payload(n, 2, "tools/list", "")

\* the handshake hands a payload to send_request or send_notification
Issue(payload, entry, next) ==
    /\ req' = [req EXCEPT ![Main] = payload]
    /\ pc' = [pc EXCEPT ![Main] = entry]
    /\ ncalls' = ncalls + 1
    /\ issued' = Append(issued, payload)
    /\ dpc' = next
    /\ UNCHANGED <<stream, procs, cur, childVars, commVars, result, timedOutSeqs,
                   active_servers, platform_info, loc, ret, before, ndeploys>>

\* a failed handshake sends deploy_package back to start another process
RelaunchOnFailure(outcome) ==
    /\ hs' = outcome
    /\ dpc' = "spawn"
    /\ procs' = Terminated(loc.process)
    /\ NoCommunicator
    /\ UNCHANGED <<stream, childShapes, platform_info, before, ndeploys, issued,
                   active_servers, ret, loc>>

\* the exception leaves _initialize_mcp_protocol; deploy_package, lines 504-511
HandshakeFails(outcome) ==
    /\ hs' = outcome
    /\ DeployReturn("None", active_servers, Terminated(loc.process))
    /\ UNCHANGED issued

\* _initialize_mcp_protocol, line 532
HsStart ==
    /\ dpc = "hs_start"
    /\ Issue(InitRequest(ncalls + 1), "sr_acquire", "hs_init1")
    /\ UNCHANGED hs

\* a failed initialize is taken for a success
InitFailureIgnored(attempt, init_result) == "notify"

\* a reply that carries no JSON-RPC result is taken for a failed attempt
ReplyMustBeResult(attempt, init_result) ==
    IF /\ init_result.success
       /\ init_result.decoded
       /\ init_result.raw[1].ch = EmptyResultReply
    THEN "notify"
    ELSE IF attempt = 1 THEN "retry"
    ELSE "raise"

\* _initialize_mcp_protocol, lines 533-549: what follows an initialize attempt
AfterInitialize(attempt, init_result) ==
    IF init_result.success THEN "notify"
    ELSE IF attempt = 1 THEN "retry"
    ELSE "raise"

\* _initialize_mcp_protocol, lines 533-557
HsInitDone ==
    /\ dpc \in {"hs_init1", "hs_init2"}
    /\ pc[Main] = "done"
    /\ LET attempted == [hs EXCEPT !.init = Append(@, result[Main].success)]
           todo == AfterInitialize(IF dpc = "hs_init1" THEN 1 ELSE 2, result[Main])
       IN  CASE todo = "notify" ->
                  /\ hs' = attempted
                  /\ Issue(InitNotification(ncalls + 1), "sn_acquire", "hs_notif")
             [] todo = "retry" ->
                  /\ hs' = attempted
                  /\ Issue(SimpleInitRequest(ncalls + 1), "sr_acquire", "hs_init2")
             [] todo = "raise" ->
                  HandshakeFails([attempted EXCEPT !.done = TRUE])

\* _initialize_mcp_protocol, lines 557-566
HsNotifDone ==
    /\ dpc = "hs_notif"
    /\ pc[Main] = "done"
    /\ IF result[Main].raised
       THEN HandshakeFails([hs EXCEPT !.done = TRUE])
       ELSE /\ Issue(ToolsRequest(ncalls + 1), "sr_acquire", "hs_tools")
            /\ UNCHANGED hs

\* the text of a decoded reply
Shape(r) == IF r.success /\ r.decoded THEN r.raw[1].ch ELSE ""

\* _initialize_mcp_protocol, lines 567-569
ToolsListAccepted(tools_result) ==
    /\ tools_result.success
    /\ tools_result.decoded
    /\ Shape(tools_result) \in {ToolsReply, EmptyResultReply, NullResultReply,
                                NullToolsReply}

\* a result that is not an object is read as an empty one
GetNeverRaises(tools_result) == FALSE

\* _initialize_mcp_protocol, line 570: tools_data["result"].get raises when
\* result is not an object
GetRaises(tools_result) == Shape(tools_result) = NullResultReply

\* _initialize_mcp_protocol, line 570: tools_data["result"].get("tools", [])
ToolsOf(tools_result) ==
    CASE Shape(tools_result) = ToolsReply -> "[{name:echo}]"
      [] Shape(tools_result) = NullToolsReply -> "null"
      [] OTHER -> "[]"

\* deploy_package, line 500: [tool.get('name') for tool in available_tools]
\* raises unless available_tools is a list of objects
PrintRaises(available_tools) == available_tools = "null"

\* an identifier no session of the registry has
FreshId(servers) ==
    CHOOSE i \in 1..(Cardinality(DOMAIN servers) + 1) : i \notin DOMAIN servers

\* deploy_package, line 445: f"mcp_{uuid.uuid4().hex[:8]}" is the identifier
\* of a registered session or another one; identifiers are only compared, so
\* one value stands for all the others. Nothing depends on the value before
\* line 497, where it is drawn here
ServerIds(servers) == DOMAIN servers \cup {FreshId(servers)}

\* _initialize_mcp_protocol, lines 567-573, then deploy_package, lines 486-511
HsToolsDone ==
    /\ dpc = "hs_tools"
    /\ pc[Main] = "done"
    /\ LET tools_result == result[Main]
           ok == ToolsListAccepted(tools_result) /\ ~GetRaises(tools_result)
           outcome == [hs EXCEPT !.done = TRUE, !.ok = ok, !.tools_result = tools_result]
           available_tools == ToolsOf(tools_result)
       IN  IF ~ok
           THEN HandshakeFails(outcome)
           ELSE /\ hs' = outcome
                /\ UNCHANGED issued
                /\ \E server_id \in ServerIds(active_servers) :
                     LET registered == (server_id :> Session(loc.process, available_tools))
                                           @@ active_servers
                     IN  IF PrintRaises(available_tools)
                         THEN DeployReturn("None", registered, Terminated(loc.process))
                         ELSE DeployReturn("server_info", registered, procs)

\* ------------------------------------------------------------------ cleanup
\* the wait is made without asking the process to terminate
WaitWithoutTerminate(allProcs, pid, exits) ==
    [allProcs EXCEPT ![pid].st = IF exits THEN "exited" ELSE @]

\* cleanup_server, lines 583-588: process.terminate() then
\* process.wait(timeout=5); the process exits within the wait, or one of the
\* two calls raises (TimeoutExpired for the wait), which line 587 catches,
\* and the process is left as it is: nothing kills it
TerminateAndWait(allProcs, pid, exits) ==
    [allProcs EXCEPT ![pid].term = TRUE,
                     ![pid].st = IF exits THEN "exited" ELSE @]

\* the whole registry is cleared
ClearsRegistry(servers, server_id) == <<>>

\* del leaves the entry in place
KeepsEntry(servers, server_id) == servers

\* cleanup_server, line 591: del self.active_servers[server_id]
Without(servers, server_id) ==
    [i \in DOMAIN servers \ {server_id} |-> servers[i]]

\* cleanup_server, lines 575-592
cleanup_server(server_id) ==
    /\ dpc = "idle"
    /\ IF server_id \notin DOMAIN active_servers
       THEN /\ ret' = ReturnedFor("cleanup_server", server_id, "False")
            /\ UNCHANGED <<procs, active_servers>>
       ELSE /\ \E exits \in BOOLEAN :
                 procs' = TerminateAndWait(procs, active_servers[server_id].process, exits)
            /\ active_servers' = Without(active_servers, server_id)
            /\ ret' = ReturnedFor("cleanup_server", server_id, "True")
    /\ UNCHANGED <<stream, cur, childVars, commVars, callVars, platform_info, dpc, loc,
                   before, ndeploys, issued, hs>>

\* cleanup_all, lines 594-602
cleanup_all ==
    /\ dpc = "idle"
    /\ \E exiting \in SUBSET {active_servers[i].process : i \in DOMAIN active_servers} :
         procs' = [pid \in DOMAIN procs |->
                     IF \E i \in DOMAIN active_servers : active_servers[i].process = pid
                     THEN TerminateAndWait(procs, pid, pid \in exiting)[pid]
                     ELSE procs[pid]]
    /\ active_servers' = <<>>
    /\ ret' = Returned("cleanup_all", "None")
    /\ UNCHANGED <<stream, cur, childVars, commVars, callVars, platform_info, dpc, loc,
                   before, ndeploys, issued, hs>>

\* ------------------------------------------ cleanup by concurrent threads
\* the locals of a cleanup_server or cleanup_all call: todo is what is left
\* of server_ids (line 598), process the Popen object of server_info
CleanupLocals(op, server_id, todo, process) ==
    [op |-> op, server_id |-> server_id, todo |-> todo, process |-> process]

\* a cleanup_server call ends with this value (or by raising); inside
\* cleanup_all the value is dropped and the loop goes on, and an exception
\* leaves cleanup_all too
CleanupServerEnds(t, value) ==
    IF req[t].op = "cleanup_all" /\ value # "raised"
    THEN /\ pc' = [pc EXCEPT ![t] = "ca_next"]
         /\ UNCHANGED result
    ELSE /\ pc' = [pc EXCEPT ![t] = "done"]
         /\ result' = [result EXCEPT ![t] =
                          ReturnedFor(req[t].op, req[t].server_id, value)]

\* a thread calls cleanup_server(server_id)
CallCleanupServer(t, server_id) ==
    /\ pc[t] \in {"idle", "done"}
    /\ ncalls < MaxCalls
    /\ ncalls' = ncalls + 1
    /\ pc' = [pc EXCEPT ![t] = "cs_check"]
    /\ req' = [req EXCEPT ![t] = CleanupLocals("cleanup_server", server_id, {}, 0)]
    /\ UNCHANGED <<stream, procs, cur, childVars, commVars, result, timedOutSeqs,
                   active_servers, deployVars>>

\* a thread calls cleanup_all()
CallCleanupAll(t) ==
    /\ pc[t] \in {"idle", "done"}
    /\ ncalls < MaxCalls
    /\ ncalls' = ncalls + 1
    /\ pc' = [pc EXCEPT ![t] = "ca_list"]
    /\ req' = [req EXCEPT ![t] = CleanupLocals("cleanup_all", 0, {}, 0)]
    /\ UNCHANGED <<stream, procs, cur, childVars, commVars, result, timedOutSeqs,
                   active_servers, deployVars>>

\* cleanup_all stops after the first session
CleanupAllListsOne(t) ==
    /\ pc[t] = "ca_list"
    /\ \E one \in SUBSET DOMAIN active_servers :
         /\ Cardinality(one) <= 1
         /\ req' = [req EXCEPT ![t].todo = one]
    /\ pc' = [pc EXCEPT ![t] = "ca_next"]
    /\ UNCHANGED <<stream, procs, cur, childVars, commVars, result, ncalls,
                   timedOutSeqs, active_servers, deployVars>>

\* cleanup_all, line 598: server_ids = list(self.active_servers.keys())
CleanupAllList(t) ==
    /\ pc[t] = "ca_list"
    /\ req' = [req EXCEPT ![t].todo = DOMAIN active_servers]
    /\ pc' = [pc EXCEPT ![t] = "ca_next"]
    /\ UNCHANGED <<stream, procs, cur, childVars, commVars, result, ncalls,
                   timedOutSeqs, active_servers, deployVars>>

\* cleanup_all, lines 599-602: the next id of the list, or the return
CleanupAllNext(t) ==
    /\ pc[t] = "ca_next"
    /\ IF req[t].todo = {}
       THEN /\ pc' = [pc EXCEPT ![t] = "done"]
            /\ result' = [result EXCEPT ![t] = ReturnedFor("cleanup_all", 0, "None")]
            /\ UNCHANGED req
       ELSE /\ \E server_id \in req[t].todo :
                 req' = [req EXCEPT ![t].todo = @ \ {server_id},
                                    ![t].server_id = server_id]
            /\ pc' = [pc EXCEPT ![t] = "cs_check"]
            /\ UNCHANGED result
    /\ UNCHANGED <<stream, procs, cur, childVars, commVars, ncalls, timedOutSeqs,
                   active_servers, deployVars>>

\* cleanup_server, lines 577-578
CleanupCheck(t) ==
    /\ pc[t] = "cs_check"
    /\ IF req[t].server_id \notin DOMAIN active_servers
       THEN CleanupServerEnds(t, "False")
       ELSE /\ pc' = [pc EXCEPT ![t] = "cs_get"]
            /\ UNCHANGED result
    /\ UNCHANGED <<stream, procs, cur, childVars, commVars, req, ncalls, timedOutSeqs,
                   active_servers, deployVars>>

\* cleanup_server, line 580: the subscript raises KeyError when the entry
\* has gone since the check
CleanupGet(t) ==
    /\ pc[t] = "cs_get"
    /\ IF req[t].server_id \notin DOMAIN active_servers
       THEN /\ CleanupServerEnds(t, "raised")
            /\ UNCHANGED req
       ELSE /\ req' = [req EXCEPT ![t].process =
                                     active_servers[req[t].server_id].process]
            /\ pc' = [pc EXCEPT ![t] = "cs_term"]
            /\ UNCHANGED result
    /\ UNCHANGED <<stream, procs, cur, childVars, commVars, ncalls, timedOutSeqs,
                   active_servers, deployVars>>

\* cleanup_server, lines 583-588
CleanupTerminate(t) ==
    /\ pc[t] = "cs_term"
    /\ \E exits \in BOOLEAN : procs' = TerminateAndWait(procs, req[t].process, exits)
    /\ pc' = [pc EXCEPT ![t] = "cs_del"]
    /\ UNCHANGED <<stream, cur, childVars, commVars, req, result, ncalls, timedOutSeqs,
                   active_servers, deployVars>>

\* cleanup_server, lines 591-592: del raises KeyError when the entry has
\* gone since the check
CleanupDel(t) ==
    /\ pc[t] = "cs_del"
    /\ IF req[t].server_id \notin DOMAIN active_servers
       THEN /\ CleanupServerEnds(t, "raised")
            /\ UNCHANGED active_servers
       ELSE /\ active_servers' = Without(active_servers, req[t].server_id)
            /\ CleanupServerEnds(t, "True")
    /\ UNCHANGED <<stream, procs, cur, childVars, commVars, req, ncalls, timedOutSeqs,
                   deployVars>>

\* the sessions the concurrent callers start with
RegisteredAtStart ==
    (1 :> Session(1, "[{name:echo}]")) @@ (2 :> Session(2, "[]"))

\* a deployer with two registered sessions and no operation in progress
InitCleanup ==
    /\ stream = <<>>
    /\ stdoutPipe = <<>>
    /\ procs = (1 :> Process("running")) @@ (2 :> Process("running"))
    /\ cur = 0
    /\ childShapes = [initialize |-> {}, other |-> {}]
    /\ active_servers = RegisteredAtStart
    /\ platform_info = [node_available |-> TRUE, uv_available |-> FALSE]
    /\ ret = Returned("deploy_package", "server_info")
    /\ ndeploys = 2
    /\ IdleTransport
    /\ IdleDeployer

NextCleanup ==
    \E t \in Clients :
        \/ \E server_id \in ServerIds(RegisteredAtStart) : CallCleanupServer(t, server_id)
        \/ CallCleanupAll(t)
        \/ CleanupAllList(t)
        \/ CleanupAllNext(t)
        \/ CleanupCheck(t)
        \/ CleanupGet(t)
        \/ CleanupTerminate(t)
        \/ CleanupDel(t)

SpecCleanup == InitCleanup /\ [][NextCleanup]_vars

\* a deployer as constructed: SimpleMCPDeployer.__init__, lines 230-233, on a
\* machine with or without each runtime
Init ==
    /\ stream = <<>>
    /\ procs = <<>>
    /\ cur = 0
    /\ stdoutPipe = <<>>
    /\ childShapes = [initialize |-> {EmptyResultReply, ErrorReply, TextReply},
                      other |-> AllShapes]
    /\ active_servers = <<>>
    /\ platform_info \in [node_available : BOOLEAN, uv_available : BOOLEAN]
    /\ ret = Returned("", "")
    /\ ndeploys = 0
    /\ IdleTransport
    /\ IdleDeployer

Next ==
    \/ \E package_name \in PackageNames, run_command \in RunCommands,
          github_url \in GithubUrls :
         DeployCall(package_name, run_command, github_url)
    \/ TryStartProcess
    \/ CreateCommunicator
    \/ HsStart
    \/ HsInitDone
    \/ HsNotifDone
    \/ HsToolsDone
    \/ \E server_id \in ServerIds(active_servers) : cleanup_server(server_id)
    \/ cleanup_all
    \/ HandshakeTransportStep

Spec == Init /\ [][Next]_vars

\* ------------------------------------------------------- runtime detection
\* what the machine answers to a probe: shutil.which(name) returns a path or
\* None, or raises; subprocess.run([path, "--version"], timeout=5) returns
\* with an exit code, or raises TimeoutExpired or OSError
WhichOutcomes == {"None", "/usr/bin", "/usr/local/bin", "raises"}
RunOutcomes == {"0", "1", "TimeoutExpired", "OSError"}
Runtimes == {"npx", "uvx"}

\* the keys of platform_info that belong to a runtime
AvailableKey(r) == IF r = "npx" THEN "node_available" ELSE "uv_available"
PathKey(r) == IF r = "npx" THEN "npx_path" ELSE "uvx_path"
VersionKey(r) == IF r = "npx" THEN "npx_version" ELSE "uvx_version"

\* positions of detect_simple_platform: the two try blocks, in order
WhichPc(r) == IF r = "npx" THEN "which_npx" ELSE "which_uvx"
RunPc(r) == IF r = "npx" THEN "run_npx" ELSE "run_uvx"
AfterProbe(r) == IF r = "npx" THEN WhichPc("uvx") ELSE "done"

\* what the probes of the call in progress have answered so far
NotProbed == [r \in Runtimes |-> ""]
DetectLocals(which, run) == [which |-> which, run |-> run]

\* detect_simple_platform, lines 174-182; a version key that is absent from
\* the dict is written "absent"
NothingDetected ==
    [node_available |-> FALSE, npx_path |-> "None", npx_version |-> "absent",
     uv_available |-> FALSE, uvx_path |-> "None", uvx_version |-> "absent"]

\* detect_simple_platform, lines 187-189 and 202-204
MarksAvailable(info, r, path) ==
    [info EXCEPT ![AvailableKey(r)] = TRUE, ![PathKey(r)] = path]

\* detect_simple_platform, lines 186-189 and 201-204: the path lookup; an
\* exception is caught at lines 196 and 211
ProbeWhich(r) ==
    /\ pc[Main] = WhichPc(r)
    /\ \E found \in WhichOutcomes :
         /\ req' = [req EXCEPT ![Main].which[r] = found]
         /\ IF found \in {"None", "raises"}
            THEN /\ pc' = [pc EXCEPT ![Main] = AfterProbe(r)]
                 /\ UNCHANGED platform_info
            ELSE /\ pc' = [pc EXCEPT ![Main] = RunPc(r)]
                 /\ platform_info' = MarksAvailable(platform_info, r, found)
    /\ UNCHANGED <<stream, procs, cur, childVars, commVars, result, ncalls,
                   timedOutSeqs, active_servers, dpc, loc, ret, before, ndeploys,
                   issued, hs>>

\* detect_simple_platform, lines 192-197 and 207-212: the version invocation;
\* an exception is caught at lines 196 and 211
ProbeVersion(r) ==
    /\ pc[Main] = RunPc(r)
    /\ \E outcome \in RunOutcomes :
         /\ req' = [req EXCEPT ![Main].run[r] = outcome]
         /\ platform_info' = (IF outcome = "0"
                              THEN [platform_info EXCEPT ![VersionKey(r)] = "version"]
                              ELSE platform_info)
    /\ pc' = [pc EXCEPT ![Main] = AfterProbe(r)]
    /\ UNCHANGED <<stream, procs, cur, childVars, commVars, result, ncalls,
                   timedOutSeqs, active_servers, dpc, loc, ret, before, ndeploys,
                   issued, hs>>

\* SimpleMCPDeployer.__init__, lines 231-232, has just called
\* detect_simple_platform
InitDetect ==
    /\ stream = <<>>
    /\ stdoutPipe = <<>>
    /\ procs = <<>>
    /\ cur = 0
    /\ childShapes = [initialize |-> {}, other |-> {}]
    /\ active_servers = <<>>
    /\ platform_info = NothingDetected
    /\ ret = Returned("", "")
    /\ ndeploys = 0
    /\ written = <<>>
    /\ childPos = 0
    /\ unsolicited = 0
    /\ _buffer = <<>>
    /\ response_queue = <<>>
    /\ lock = "none"
    /\ readerPc = "poll"
    /\ pc = [t \in Threads |-> IF t = Main THEN WhichPc("npx") ELSE "idle"]
    /\ req = [t \in Threads |-> IF t = Main THEN DetectLocals(NotProbed, NotProbed)
                                 ELSE NoPayload]
    /\ result = [t \in Threads |-> NoResult]
    /\ ncalls = 0
    /\ timedOutSeqs = {}
    /\ IdleDeployer

NextDetect == \E r \in Runtimes : ProbeWhich(r) \/ ProbeVersion(r)

SpecDetect == InitDetect /\ [][NextDetect]_vars

\* ---------------------------------------------------------- AsyncMCPClient
\* the dict list_tools or call_tool returns: value is its tools or result
\* member ("absent": the dict has no such key), raised: the call raised
ClientDict(ok, value, err) ==
    [success |-> ok, value |-> value, error |-> err, raised |-> FALSE]

\* "error" in data, "result" in data, for the decoded reply of res
HasMember(res, key) ==
    /\ res.success /\ res.decoded
    /\ CASE key = "error" -> Shape(res) = ErrorReply
         [] key = "result" -> Shape(res) \in {ToolsReply, EmptyResultReply,
                                              NullResultReply, NullToolsReply}
         [] OTHER -> FALSE

\* data["result"] of a decoded reply
ResultMember(res) ==
    CASE Shape(res) = ToolsReply -> "{tools:[{name:echo}]}"
      [] Shape(res) = EmptyResultReply -> "{}"
      [] Shape(res) = NullToolsReply -> "{tools:null}"
      [] OTHER -> "null"

\* call_tool, line 79: data["error"].get("message"); the error objects the
\* child writes have a code and no message, so .get returns None
ErrorMessage(res) == "None"

\* AsyncMCPClient.call_tool, lines 65-92, applied to what _send returned
call_tool(res) ==
    IF ~res.success
    THEN ClientDict(FALSE, "absent", res.error)
    ELSE IF res.decoded
         THEN LET error == IF HasMember(res, "error") THEN ErrorMessage(res) ELSE "None"
                  tool_result == IF ~HasMember(res, "error") /\ HasMember(res, "result")
                                 THEN ResultMember(res) ELSE "None"
              IN  IF error # "None"
                  THEN ClientDict(FALSE, "absent", error)
                  ELSE ClientDict(TRUE, tool_result, "")
         ELSE ClientDict(TRUE, res.raw, "")

\* AsyncMCPClient.list_tools, lines 49-61, applied to what _send returned;
\* line 58 raises AttributeError when the result member is not an object,
\* which line 60 catches
list_tools(res) ==
    IF ~res.success
    THEN ClientDict(FALSE, "[]", res.error)
    ELSE IF res.decoded /\ HasMember(res, "result")
         THEN CASE Shape(res) = NullResultReply -> ClientDict(FALSE, "[]", "AttributeError")
                [] Shape(res) = ToolsReply -> ClientDict(TRUE, "[{name:echo}]", "")
                [] Shape(res) = NullToolsReply -> ClientDict(TRUE, "null", "")
                [] OTHER -> ClientDict(TRUE, "[]", "")
         ELSE ClientDict(TRUE, "[]", "")

\* AsyncMCPClient._send, lines 33-45: the request is built and send_request
\* called with it on the communicator
ClientSend(t, method) ==
    /\ t \in Clients
    /\ pc[t] \in {"idle", "returned"}
    /\ ncalls < MaxCalls
    /\ ncalls' = ncalls + 1
    /\ req' = [req EXCEPT ![t] = Payload(ncalls + 1, ncalls + 1, method,
                                         IF method = "tools/call" THEN "name,arguments"
                                         ELSE "")]
    /\ pc' = [pc EXCEPT ![t] = "sr_acquire"]
    /\ result' = [result EXCEPT ![t] = NoResult]
    /\ UNCHANGED <<stream, procs, cur, childVars, commVars, timedOutSeqs,
                   active_servers, deployVars>>

\* call_tool, line 67, and list_tools, line 50
ClientCall(t) == ClientSend(t, "tools/call") \/ ClientSend(t, "tools/list")

\* call_tool, lines 68-92, and list_tools, lines 51-61: send_request has
\* returned and its result is normalised
ClientReturn(t) ==
    /\ t \in Clients
    /\ pc[t] = "done"
    /\ result' = [result EXCEPT ![t] = IF req[t].method = "tools/call"
                                       THEN call_tool(result[t])
                                       ELSE list_tools(result[t])]
    /\ pc' = [pc EXCEPT ![t] = "returned"]
    /\ UNCHANGED <<stream, procs, cur, childVars, commVars, req, ncalls, timedOutSeqs,
                   active_servers, deployVars>>

\* a registered session whose child answers a request with any line
InitClient ==
    /\ stream = <<>>
    /\ stdoutPipe = <<>>
    /\ procs = (1 :> Process("running"))
    /\ cur = 1
    /\ childShapes = [initialize |-> {}, other |-> AllShapes]
    /\ active_servers = (1 :> Session(1, "[{name:echo}]"))
    /\ platform_info = [node_available |-> TRUE, uv_available |-> FALSE]
    /\ ret = Returned("deploy_package", "server_info")
    /\ ndeploys = 1
    /\ IdleTransport
    /\ IdleDeployer

\* the client sends requests only, no notifications
NextClient ==
    \/ ChildReply
    \/ ChildExit
    \/ ReaderPoll
    \/ ReaderRead
    \/ \E t \in Clients :
         \/ SendRequestAcquire(t)
         \/ SendRequestPoll(t)
         \/ SendRequestDrain(t)
         \/ SendRequestWrite(t)
         \/ SendRequestException(t)
         \/ SendRequestGet(t)
         \/ SendRequestTimeout(t)
         \/ ClientCall(t)
         \/ ClientReturn(t)

SpecClient == InitClient /\ [][NextClient]_vars

\* ------------------------------------------------- properties of the transport
\* between acquiring and releasing the lock
InCritical(t) ==
    pc[t] \in {"sr_poll", "sr_drain", "sr_write1", "sr_write2", "sr_wait",
               "sn_write1", "sn_write2", "sn_return"}

\* the bytes on the child's stdin are whole frames, one after the other
WholeFrames ==
    \A i \in 1..Len(written) :
        /\ written[i].part = "nl" =>
               i > 1 /\ written[i - 1] = Piece(written[i].p, "body")
        /\ written[i].part = "body" /\ i < Len(written) =>
               written[i + 1] = Piece(written[i].p, "nl")

IsRequest(t) == req[t].id > 0

\* C1: at most one caller of send_request / send_notification is between
\* acquiring and releasing the lock, that caller is the lock's holder, a
\* frame that is half written to a running child belongs to it, and the
\* payloads on the child's stdin are never interleaved.
WritesSerialized ==
    /\ Cardinality({t \in Threads : InCritical(t)}) <= 1
    /\ \A t \in Threads : InCritical(t) => lock = t
    /\ WholeFrames
    /\ (Running(cur) /\ written # <<>> /\ written[Len(written)].part = "body") =>
           \E t \in Threads :
               /\ pc[t] \in {"sr_write2", "sn_write2"}
               /\ req[t] = written[Len(written)].p

WritesSerializedWitness ==
    \E t, u \in Clients :
        /\ t # u
        /\ pc[t] = "sr_write2"
        /\ pc[u] \in {"sr_acquire", "sn_acquire"}

\* the line a successful send_request returned answers its own request
Paired(t) == Len(result[t].raw) = 1 /\ result[t].raw[1].id = req[t].seq

Succeeded(t) == pc[t] = "done" /\ IsRequest(t) /\ result[t].success

\* C2: while no send_request has timed out and the child has written no
\* line that answers no request (it answers in order, one line each), every
\* send_request that returned success returned the reply to its own request.
InOrderPairing ==
    (timedOutSeqs = {} /\ unsolicited = 0) =>
        \A t \in Threads : Succeeded(t) => Paired(t)

InOrderPairingWitness ==
    /\ timedOutSeqs = {}
    /\ unsolicited = 0
    /\ \E t, u \in Clients :
        /\ t # u
        /\ Succeeded(t) /\ Succeeded(u)
        /\ Paired(t) /\ Paired(u)

\* C3: even after a timeout, every send_request that returns success returns
\* the reply to its own request (the child answers in order, one line each).
LateReplyNeverReturned ==
    unsolicited = 0 =>
        \A t \in Threads : Succeeded(t) => Paired(t)

\* the step in which send_request returns its timeout failure
TimeoutReturn(t) == pc[t] = "sr_wait" /\ pc'[t] = "done" /\ ~result'[t].success

\* C4: the step in which send_request times out returns the failure and
\* changes nothing else: the processes (no terminate, none exits), the
\* registry, the pipes, the buffer and the queue are as before; and while
\* the process is running send_request is never refused at its liveness
\* check, whatever timed out before.
TimeoutChangesNothingElse ==
    [][\A t \in Threads :
         /\ TimeoutReturn(t) =>
              /\ result'[t] = Result(FALSE, "timeout", FALSE, <<>>)
              /\ UNCHANGED <<procs, cur, active_servers, childVars, _buffer,
                             response_queue, readerPc>>
         /\ (pc[t] = "sr_poll" /\ Running(cur)) => pc'[t] \in {"sr_poll", "sr_drain"}
      ]_vars

\* after a timeout the session is registered, its process runs and a later
\* request has been written to it
TimeoutChangesNothingElseWitness ==
    /\ Running(cur)
    /\ ~procs[cur].term
    /\ \E sid \in DOMAIN active_servers : active_servers[sid].process = cur
    /\ \E i \in 1..Len(written) : \E n \in timedOutSeqs :
         /\ written[i].part = "nl"
         /\ written[i].p.id > 0
         /\ written[i].p.seq > n

\* ------------------------------------------------- properties of the deployer
Methods(pieces) == [i \in DOMAIN pieces |-> pieces[i].p.method]

\* the place of a method in the handshake
Rank(method) ==
    CASE method = "initialize" -> 1
      [] method = "notifications/initialized" -> 2
      [] method = "tools/list" -> 3
      [] OTHER -> 4

Count(payloads, method) ==
    Cardinality({i \in DOMAIN payloads : payloads[i].method = method})

\* the initialize attempts made so far, and whether the last one succeeded
InitializeSucceeded == hs.init # <<>> /\ hs.init[Len(hs.init)]

\* C7: what _initialize_mcp_protocol writes to the child is in the order
\* initialize (one or two frames), notifications/initialized, tools/list;
\* no byte of the notification is written before an initialize request has
\* returned success, and no byte of tools/list before the whole notification.
HandshakeOrder ==
    /\ \A i, j \in DOMAIN written :
         i < j => Rank(written[i].p.method) <= Rank(written[j].p.method)
    /\ Cardinality({i \in DOMAIN written : written[i].p.method = "initialize"
                                           /\ written[i].part = "body"}) <= 2
    /\ \A i \in DOMAIN written :
         /\ written[i].p.method = "notifications/initialized" => InitializeSucceeded
         /\ written[i].p.method = "tools/list" =>
              \E j \in 1..(i - 1) :
                  /\ written[j].p.method = "notifications/initialized"
                  /\ written[j].part = "nl"

\* both initialize attempts, the notification and tools/list are on the wire
HandshakeOrderWitness ==
    /\ Len(written) = 8
    /\ Methods(written) = <<"initialize", "initialize", "initialize", "initialize",
                            "notifications/initialized", "notifications/initialized",
                            "tools/list", "tools/list">>
    /\ hs.init = <<FALSE, TRUE>>

\* C8: one handshake hands the communicator at most two initialize requests,
\* the first with the full parameters, the second only after the first has
\* failed and with protocolVersion alone; one notification once initialize
\* has succeeded and none before; at most one tools/list; when both
\* initialize attempts failed the handshake has failed with no notification
\* and no tools/list.
HandshakeRetryBudget ==
    /\ Count(issued, "initialize") <= 2
    /\ Count(issued, "notifications/initialized") <= 1
    /\ Count(issued, "tools/list") <= 1
    /\ issued # <<>> => issued[1] = InitRequest(1)
    /\ \A i \in DOMAIN issued :
         (i > 1 /\ issued[i].method = "initialize") =>
             /\ i = 2
             /\ issued[i].params = "protocolVersion"
             /\ hs.init # <<>> /\ ~hs.init[1]
    /\ Count(issued, "notifications/initialized") = 1 <=> InitializeSucceeded
    /\ Count(issued, "tools/list") = 1 => Count(issued, "notifications/initialized") = 1
    /\ hs.init = <<FALSE, FALSE>> =>
         /\ hs.done /\ ~hs.ok
         /\ Len(issued) = 2
         /\ ret.op = "deploy_package" => ret.value = "None"

HandshakeRetryBudgetWitness ==
    /\ hs.done
    /\ hs.init = <<FALSE, FALSE>>
    /\ Len(issued) = 2
    /\ issued[2] = SimpleInitRequest(2)

\* deploy_package has just returned from a call that reached the handshake
HandshakeOver == hs.done /\ ret.op = "deploy_package"

\* C9 as stated: the handshake succeeds only on a tools/list reply holding a
\* result.tools array; on every other reply it fails and deploy_package
\* returns None with nothing registered.
HandshakeNeedsToolsArray ==
    HandshakeOver =>
        /\ hs.ok => Shape(hs.tools_result) = ToolsReply
        /\ Shape(hs.tools_result) # ToolsReply =>
             /\ ~hs.ok
             /\ ret = Returned("deploy_package", "None")
             /\ active_servers = before

\* C9 amended: the handshake succeeds exactly when send_request returned,
\* for tools/list, a JSON object whose result member is an object, with or
\* without a tools member; on a timeout, a dead process, a line that is not
\* JSON, an error-shaped reply or a result that is not an object it fails
\* and deploy_package returns None with nothing registered.
HandshakeNeedsResultObject ==
    HandshakeOver =>
        /\ hs.ok <=> Shape(hs.tools_result) \in {ToolsReply, EmptyResultReply,
                                                  NullToolsReply}
        /\ ~hs.ok =>
             /\ ret = Returned("deploy_package", "None")
             /\ active_servers = before

\* a result object without a tools member: the session is registered with
\* an empty tool list
HandshakeNeedsResultObjectWitness ==
    /\ HandshakeOver /\ hs.ok
    /\ Shape(hs.tools_result) = EmptyResultReply
    /\ ret = Returned("deploy_package", "server_info")
    /\ \E sid \in DOMAIN active_servers : active_servers[sid].available_tools = "[]"

\* C10: whenever deploy_package has returned None, active_servers is what it
\* was when deploy_package was called.
NoPartialSession ==
    ret = Returned("deploy_package", "None") => active_servers = before

\* number of bytes appended to the buffer so far
Fed == Len(stream) - Len(stdoutPipe)

StreamANB == <<Byte("A"), NL, Byte("B"), NL>>
StreamNNCN == <<NL, NL, Byte("C"), NL>>
MsgA == <<Byte("A")>>
MsgB == <<Byte("B")>>
MsgC == <<Byte("C")>>

IsPrefix(s, t) == Len(s) <= Len(t) /\ SubSeq(t, 1, Len(s)) = s

\* C5: however the bytes of "A\nB\n" are split into appended chunks, the
\* messages enqueued are "A" as soon as its newline has been appended and
\* then "B" as soon as its newline has been appended: exactly <<"A", "B">>
\* at the end, in that order, none lost or duplicated, nothing left behind.
FrameReconstruction ==
    stream = StreamANB =>
        /\ response_queue = (IF Fed < 2 THEN <<>>
                             ELSE IF Fed < 4 THEN <<MsgA>>
                             ELSE <<MsgA, MsgB>>)
        /\ _buffer = (IF Fed = 3 THEN MsgB ELSE IF Fed = 1 THEN MsgA ELSE <<>>)

FrameReconstructionWitness ==
    /\ stream = StreamANB
    /\ stdoutPipe = <<>>
    /\ response_queue = <<MsgA, MsgB>>

\* C6: in a stream that starts with "\n\nC\n" the empty lines enqueue
\* nothing and "C" is enqueued by the very append that brings its newline,
\* whatever the chunking; the stream "\n\nC\n" yields exactly <<"C">>.
EmptyLinesSkipped ==
    IsPrefix(StreamNNCN, stream) =>
        /\ Fed < 4 => response_queue = <<>>
        /\ Fed >= 4 => response_queue # <<>> /\ Head(response_queue) = MsgC
        /\ stream = StreamNNCN /\ Fed = 4 => response_queue = <<MsgC>> /\ _buffer = <<>>

EmptyLinesSkippedWitness ==
    /\ stream = StreamNNCN
    /\ stdoutPipe = <<>>
    /\ response_queue = <<MsgC>>

\* ------------------------------------------------- properties of the launcher
\* the argv of the fallback: the runtime, its confirm flag if it has one,
\* and the package name
MinimalArgv(package_name) == {<<"npx", "-y", package_name>>, <<"uvx", package_name>>}

\* C11: once _try_start_process has seen its first process exit with an
\* argument error, a call whose caller passed a run_command has spawned
\* once, and a call whose caller passed none (with or without a github_url)
\* has spawned exactly twice, the second time with the minimal argv.
FallbackGating ==
    loc.first = "arg_error" =>
        /\ loc.explicit => Len(loc.spawned) = 1
        /\ ~loc.explicit =>
              /\ Len(loc.spawned) = 2
              /\ loc.spawned[2] \in MinimalArgv(loc.package_name)

\* the last send_request the handshake may make for its step has failed:
\* the process has exited or did not answer within the timeout
LastAttemptFailed ==
    /\ dpc \in {"hs_init2", "hs_tools"}
    /\ pc[Main] = "done"
    /\ ~result[Main].success

\* C12: _try_start_process runs once per deploy_package call and calls
\* Popen at most twice; no other step of the call starts a process; and the
\* step that follows a request the process never answered, or found it
\* exited, is the return of None with the registry as it was and no new
\* process.
SpawnBudget ==
    [][/\ Len(loc'.spawned) <= 2
       /\ (dpc' = "spawn" /\ dpc # "spawn") => dpc = "idle" /\ ndeploys' = ndeploys + 1
       /\ dpc = "spawn" => dpc' \in {"spawn", "bind", "idle"}
       /\ dpc # "spawn" => DOMAIN procs' \subseteq DOMAIN procs
       /\ (LastAttemptFailed /\ dpc' # dpc) =>
              /\ dpc' = "idle"
              /\ ret' = Returned("deploy_package", "None")
              /\ active_servers' = active_servers
      ]_vars

\* the fallback was spawned and has exited too; it is about to be handed to
\* the handshake
SpawnBudgetWitness ==
    /\ dpc = "bind"
    /\ Len(loc.spawned) = 2
    /\ ~Running(loc.process)

\* ------------------------------------------------- properties of the registry
\* C13: cleanup_server on a registered id returns True and removes exactly
\* that id; on an id that is not registered (never registered, or removed by
\* an earlier cleanup) it returns False and changes nothing; after a True
\* the id is not registered, so the next call with it returns False.
CleanupIdempotent ==
    [][ret'.op = "cleanup_server" =>
         IF ret'.arg \in DOMAIN active_servers
         THEN /\ ret'.value = "True"
              /\ active_servers' = Without(active_servers, ret'.arg)
              /\ ret'.arg \notin DOMAIN active_servers'
         ELSE /\ ret'.value = "False"
              /\ UNCHANGED <<active_servers, procs, stream, cur, childVars,
                             commVars, callVars, deployVarsButRet>>
      ]_vars

\* the last deploy_package registered the only session, under id 1; it has
\* been removed, and a later cleanup_server(1) returned False
CleanupIdempotentWitness ==
    /\ ret = ReturnedFor("cleanup_server", 1, "False")
    /\ hs.ok /\ before = <<>>
    /\ active_servers = <<>>

\* C14: when deploy_package has returned a server info, the registry is what
\* it was when the call was made plus exactly one new id: no earlier entry
\* is replaced.
NeverOverwrites ==
    ret = Returned("deploy_package", "server_info") =>
        /\ Cardinality(DOMAIN active_servers) = Cardinality(DOMAIN before) + 1
        /\ \A server_id \in DOMAIN before :
               /\ server_id \in DOMAIN active_servers
               /\ active_servers[server_id] = before[server_id]

\* a finished call of a thread
Finished(t) == pc[t] = "done"

\* C15: with threads calling cleanup_server and cleanup_all concurrently,
\* no call raises, at most one cleanup_server call returns True for an id,
\* and an id for which True was returned is no longer registered.
RegistrySafe ==
    /\ \A t \in Clients : Finished(t) => result[t].value # "raised"
    /\ \A t, u \in Clients :
         (/\ t # u /\ Finished(t) /\ Finished(u)
          /\ result[t].value = "True" /\ result[u].value = "True") =>
             result[t].arg # result[u].arg
    /\ \A t \in Clients :
         (Finished(t) /\ result[t].value = "True") =>
             result[t].arg \notin DOMAIN active_servers

\* the process of a registered session
ProcessOf(server_id) == active_servers[server_id].process

\* C16: cleanup_server on a registered id asks the session's process to
\* terminate, removes the entry and returns True, whether the process exited
\* within the wait or not; a process that did not exit is left in the state
\* it was in, and no other process is touched.
CleanupAlwaysRemoves ==
    [][(ret'.op = "cleanup_server" /\ ret'.arg \in DOMAIN active_servers) =>
         /\ ret'.value = "True"
         /\ ret'.arg \notin DOMAIN active_servers'
         /\ DOMAIN procs' = DOMAIN procs
         /\ \A pid \in DOMAIN procs :
              IF pid = ProcessOf(ret'.arg)
              THEN /\ procs'[pid].term
                   /\ procs'[pid].st \in {procs[pid].st, "exited"}
              ELSE procs'[pid] = procs[pid]
      ]_vars

\* the session of the only deploy_package call was cleaned up with True and
\* its process, asked to terminate, is still running
CleanupAlwaysRemovesWitness ==
    /\ ndeploys = 1
    /\ ret = ReturnedFor("cleanup_server", 1, "True")
    /\ active_servers = <<>>
    /\ 1 \in DOMAIN procs
    /\ procs[1] = [st |-> "running", term |-> TRUE]

\* cleanup_all has returned to thread t
CleanupAllReturned(t) ==
    Finished(t) /\ result[t] = ReturnedFor("cleanup_all", 0, "None")

\* C17: when cleanup_all has returned, with no deploy_package running
\* beside it, no session is registered and terminate has been called on the
\* process of every session that was.
CleanupAllTerminatesAll ==
    \A t \in Clients :
        CleanupAllReturned(t) =>
            /\ active_servers = <<>>
            /\ \A server_id \in DOMAIN RegisteredAtStart :
                   procs[RegisteredAtStart[server_id].process].term

\* cleanup_all has gone through both sessions on its own
CleanupAllTerminatesAllWitness ==
    \E t, u \in Clients :
        /\ t # u
        /\ CleanupAllReturned(t)
        /\ pc[u] = "idle"
        /\ active_servers = <<>>
        /\ \A pid \in DOMAIN procs : procs[pid].term

\* ------------------------------------------ more properties of the transport
\* the step in which send_request leaves its liveness check
LeavesPoll(t) == pc[t] = "sr_poll" /\ pc'[t] # "sr_poll"

\* C18: when send_request finds at its liveness check that the process has
\* exited, that step returns the failure: nothing is written to stdin,
\* nothing is taken from the queue, and the wait for a reply is never
\* entered.
DeadProcessFailsAtOnce ==
    [][\A t \in Threads :
         (LeavesPoll(t) /\ ~Running(cur)) =>
             /\ pc'[t] = "done"
             /\ result'[t] = Result(FALSE, "terminated", FALSE, <<>>)
             /\ UNCHANGED <<written, response_queue, _buffer, stdoutPipe, procs,
                            timedOutSeqs>>
      ]_vars

\* send_request was refused for a dead process while a line was queued
DeadProcessFailsAtOnceWitness ==
    \E t \in Clients :
        /\ pc[t] = "done"
        /\ result[t] = Result(FALSE, "terminated", FALSE, <<>>)
        /\ response_queue # <<>>
        /\ ~Running(cur)

\* the step in which send_request stops waiting for a reply
LeavesWait(t) == pc[t] = "sr_wait" /\ pc'[t] = "done"

\* the text of a line is JSON
IsJsonLine(line) == \E text \in JsonTexts : line = <<[ch |-> text, id |-> line[1].id]>>

\* C19: the step that ends send_request's wait returns success with the
\* line at the head of the queue when there is one, decoded if it is JSON
\* and as raw text if it is not; it returns the timeout failure only when
\* the queue is empty.
DequeuedFrameIsSuccess ==
    [][\A t \in Threads :
         LeavesWait(t) =>
             IF response_queue # <<>>
             THEN /\ result'[t].success
                  /\ result'[t].raw = Head(response_queue)
                  /\ result'[t].decoded <=> IsJsonLine(Head(response_queue))
                  /\ response_queue' = Tail(response_queue)
             ELSE /\ result'[t] = Result(FALSE, "timeout", FALSE, <<>>)
                  /\ UNCHANGED response_queue
      ]_vars

\* send_request returned success with a line that is not JSON
DequeuedFrameIsSuccessWitness ==
    \E t \in Clients :
        /\ pc[t] = "done"
        /\ result[t].success /\ ~result[t].decoded
        /\ result[t].raw = <<[ch |-> TextReply, id |-> 0]>>

\* ---------------------------------------------- properties of the boundary
\* C20: no operation ends by raising: deploy_package returns a server info
\* or None, cleanup_server returns True or False, and send_request returns
\* a result, for every argument and every behaviour of the child.
NoExceptionEscapes ==
    /\ ret.op = "deploy_package" => ret.value \in {"running", "server_info", "None"}
    /\ ret.op = "cleanup_server" => ret.value \in {"True", "False"}
    /\ \A t \in Threads : (pc[t] = "done" /\ IsRequest(t)) => ~result[t].raised

\* ------------------------------------------------ properties of detection
\* a probe of the runtime ended with an exception
ProbeErrored(r) ==
    \/ req[Main].which[r] = "raises"
    \/ req[Main].run[r] \in {"TimeoutExpired", "OSError"}

\* C21: when detect_simple_platform has returned, a runtime whose path
\* lookup or version invocation raised (failed or timed out) is reported as
\* not available.
ProbeErrorMeansUnavailable ==
    pc[Main] = "done" =>
        \A r \in Runtimes : ProbeErrored(r) => ~platform_info[AvailableKey(r)]

\* ---------------------------------------- more properties of the handshake
\* C22: a handshake whose initialize succeeded goes on to tools/list
\* whatever happened when the notification was written: once it is over,
\* the tools/list request has been handed to the communicator and the
\* outcome was decided on its result.
NotificationCannotFail ==
    (hs.done /\ InitializeSucceeded) =>
        /\ Count(issued, "tools/list") = 1
        /\ hs.tools_result # NoResult

\* ------------------------------------------------ properties of the client
\* the step in which call_tool or list_tools returns
ClientReturns(t) == pc[t] = "done" /\ pc'[t] = "returned"

\* C23: call_tool and list_tools return a dict with a boolean success and
\* never raise; call_tool returns success = False exactly when send_request
\* failed or the decoded reply has an error member, and otherwise the
\* reply's result member or the undecoded text; list_tools returns
\* success = False, with no tools, exactly when send_request failed.
ClientNormalises ==
    [][\A t \in Clients :
         ClientReturns(t) =>
             /\ result'[t].success \in BOOLEAN
             /\ ~result'[t].raised
             /\ req[t].method = "tools/call" =>
                  /\ ~result'[t].success <=>
                         (~result[t].success \/ HasMember(result[t], "error"))
                  /\ result'[t].success =>
                         result'[t].value = (IF result[t].decoded
                                             THEN ResultMember(result[t])
                                             ELSE result[t].raw)
             /\ req[t].method = "tools/list" =>
                  /\ ~result'[t].success <=> ~result[t].success
                  /\ ~result'[t].success => result'[t].value = "[]"
      ]_vars

\* ------------------------------------------------- properties of the reader
\* C24: the reader thread stops only when nothing the child wrote is left
\* to deliver: once its loop has ended, no complete line is waiting in the
\* pipe or the buffer.
ReaderDeliversAll ==
    readerPc = "exit" => FindNewline(Decode(_buffer \o stdoutPipe)) = 0

\* the reader appends the one byte stdout.read(1) returned
OneByteAppended == Len(stdoutPipe') = Len(stdoutPipe) - 1

\* C25: after every append and the extraction that follows it the buffer
\* holds no newline byte; and an append of one byte, which is how the reader
\* appends, leaves the buffer either longer by that byte or cut down to what
\* followed a newline in it.
FrameBufferAtRest ==
    [][/\ FindNewline(_buffer') = 0
       /\ OneByteAppended =>
            LET appended == Append(_buffer, Head(stdoutPipe))
            IN  \/ _buffer' = appended
                \/ \E k \in 1..Len(appended) :
                     /\ appended[k] = NL
                     /\ _buffer' = SubSeq(appended, k + 1, Len(appended))
      ]_vars

\* a line was consumed and the bytes after it, an invalid one among them,
\* are in the buffer as they were read
FrameBufferAtRestWitness ==
    /\ stream = <<Byte("A"), NL, BAD, Byte("B")>>
    /\ stdoutPipe = <<>>
    /\ response_queue = <<MsgA>>
    /\ _buffer = <<BAD, Byte("B")>>

\* --------------------------------------------------- properties of progress
\* C26: every send_request call returns in the end, whatever the child
\* does, so the lock is released and a caller waiting for it goes on.
SendRequestReturns ==
    \A t \in Clients : (pc[t] = "sr_acquire") ~> (pc[t] = "done")

\* ------------------------------------------------ properties of the session
\* C27: the tool list a successful handshake registers comes from the line
\* the child wrote in reply to that handshake's tools/list request, never
\* from its reply to another request.
ToolsFromOwnReply ==
    (HandshakeOver /\ hs.ok) =>
        \E i \in DOMAIN issued :
            /\ issued[i].method = "tools/list"
            /\ hs.tools_result.raw[1].id = issued[i].seq

\* --------------------------------------------- properties of a failed deploy
\* the step in which a deploy_package call that reached the launcher
\* returns None
DeployFails == dpc # "idle" /\ dpc' = "idle" /\ ret'.value = "None"

\* the processes spawned since deploy_package was called
SpawnedByCall(allProcs) ==
    {pid \in DOMAIN allProcs : \A i \in DOMAIN before : before[i].process # pid}

\* C28: when deploy_package returns None after its launcher has handed it a
\* process (the handshake failed, or anything raised after the launch),
\* terminate has been called on that process, the most recently spawned;
\* whenever it returns None, every process the call spawned has exited or
\* has been asked to terminate; and a second process is spawned only after
\* the first was found exited.
FailedDeployTerminates ==
    [][/\ DeployFails =>
            /\ dpc # "spawn" =>
                 /\ loc.process \in DOMAIN procs'
                 /\ procs'[loc.process].term
            /\ \A pid \in SpawnedByCall(procs') :
                 procs'[pid].term \/ procs'[pid].st = "exited"
       /\ Len(loc'.spawned) = 2 => loc'.first = "arg_error"
      ]_vars

\* a handshake failed on a process that is still running: terminate has
\* been called on it and nothing is registered
FailedDeployTerminatesWitness ==
    /\ ret = Returned("deploy_package", "None")
    /\ hs.done /\ ~hs.ok
    /\ active_servers = <<>>
    /\ \E pid \in DOMAIN procs : procs[pid] = [st |-> "running", term |-> TRUE]

\* the step that follows the return of a handshake call
HandshakeMovesOn(from) == dpc = from /\ dpc' # from

\* C29: the first initialize is retried exactly when its send_request
\* failed (timeout, dead process or exception): when any line came back,
\* JSON-RPC error and non-JSON text included, the next thing handed to the
\* communicator is the notification, and tools/list follows the
\* notification's return; no initialize is sent after that.
RetryOnlyOnTransportFailure ==
    [][/\ HandshakeMovesOn("hs_init1") =>
            IF result[Main].raw # <<>>
            THEN /\ dpc' = "hs_notif"
                 /\ issued' = Append(issued, InitNotification(ncalls + 1))
            ELSE /\ result[Main].error \in {"timeout", "terminated", "exception"}
                 /\ dpc' = "hs_init2"
                 /\ issued' = Append(issued, SimpleInitRequest(ncalls + 1))
       /\ (HandshakeMovesOn("hs_notif") /\ ~result[Main].raised) =>
            /\ dpc' = "hs_tools"
            /\ issued' = Append(issued, ToolsRequest(ncalls + 1))
       /\ dpc \in {"hs_notif", "hs_tools"} =>
            Count(issued', "initialize") = Count(issued, "initialize")
      ]_vars

\* the child answered the first initialize with text that is not JSON: the
\* notification is being sent and there was no retry
RetryOnlyOnTransportFailureWitness ==
    /\ dpc = "hs_notif"
    /\ hs.init = <<TRUE>>
    /\ result[Main].success /\ ~result[Main].decoded
    /\ result[Main].raw = <<[ch |-> TextReply, id |-> 1]>>
    /\ Len(issued) = 2
    /\ issued[1].method = "initialize"
    /\ issued[2].method = "notifications/initialized"

\* ------------------------------------------ more properties of the registry
\* C30: a cleanup_server call leaves every session but the one it was
\* called for registered and unchanged, and changes no process but that
\* session's; and an identifier leaves the registry only in a step of
\* cleanup_server, which removes the one it was given, or of cleanup_all.
CleanupTouchesOnlyItsSession ==
    [][/\ ret'.op = "cleanup_server" =>
            /\ \A server_id \in DOMAIN active_servers \ {ret'.arg} :
                 /\ server_id \in DOMAIN active_servers'
                 /\ active_servers'[server_id] = active_servers[server_id]
            /\ \A pid \in DOMAIN procs :
                 (ret'.arg \notin DOMAIN active_servers \/ pid # ProcessOf(ret'.arg)) =>
                     /\ pid \in DOMAIN procs'
                     /\ procs'[pid] = procs[pid]
            /\ DOMAIN active_servers \ DOMAIN active_servers' \subseteq {ret'.arg}
       /\ DOMAIN active_servers \ DOMAIN active_servers' # {} =>
            ret'.op \in {"cleanup_server", "cleanup_all"}
      ]_vars

\* one of two sessions was cleaned up; the other is registered and its
\* process runs, with no terminate asked of it
CleanupTouchesOnlyItsSessionWitness ==
    /\ ndeploys = 2
    /\ ret.op = "cleanup_server" /\ ret.value = "True"
    /\ \E server_id \in DOMAIN active_servers :
         /\ server_id # ret.arg
         /\ DOMAIN active_servers = {server_id}
         /\ procs[ProcessOf(server_id)] = Process("running")

====
